---- MODULE Spec2Model ----
(***************************************************************************)
(* Serverless handlers of the portfolio site: gallery CRUD over a REST     *)
(* table and an object store, journal CRUD, and the rebuild trigger.       *)
(*                                                                         *)
(* JavaScript strings are sequences of code units (naturals).  The values  *)
(* null and undefined are the one value null; a number n is Num(n).        *)
(***************************************************************************)
EXTENDS Integers, Sequences, FiniteSets, TLC

\* ------------------------------------------------------------------ values

null == <<-1>>
Num(n) == <<-2, n>>
UriError == <<-3>>

IsString(v) == v = <<>> \/ v[1] >= 0
IsNumber(v) == v # <<>> /\ v[1] = -2
\* !v is false
Truthy(v) == v # null /\ v # <<>> /\ v # Num(0)
\* a || b
OrElse(a, b) == IF Truthy(a) THEN a ELSE b

RECURSIVE Decimal(_)
Decimal(n) == IF n < 10 THEN <<48 + n>> ELSE Decimal(n \div 10) \o <<48 + (n % 10)>>

\* String(v) of a string or a non-negative number
ToStr(v) == IF IsNumber(v) THEN Decimal(v[2]) ELSE v

\* s.indexOf(m), 0-based, -1 when m does not occur
IndexOf(s, m) ==
  LET hits == {i \in 0..(Len(s) - Len(m)) : SubSeq(s, i + 1, i + Len(m)) = m}
  IN IF hits = {} THEN -1 ELSE CHOOSE i \in hits : \A j \in hits : i <= j

\* s.slice(k) for 0 <= k <= s.length
SliceFrom(s, k) == SubSeq(s, k + 1, Len(s))

\* ASCII case folding, as the /i flag of a RegExp without /u compares
LowerChar(c) == IF c \in 65..90 THEN c + 32 ELSE c
AsciiLower(s) == [i \in 1..Len(s) |-> LowerChar(s[i])]

\* s.toLowerCase(): the only code units outside ASCII that lower-case into
\* ASCII are U+212A (to k) and U+0130 (to i followed by U+0307); every other
\* one lower-cases to code units outside ASCII, kept here as they are
RECURSIVE ToLowerCase(_)
ToLowerCase(s) ==
  IF s = <<>> THEN <<>>
  ELSE (IF s[1] = 8490 THEN <<107>>
        ELSE IF s[1] = 304 THEN <<105, 775>>
        ELSE <<LowerChar(s[1])>>) \o ToLowerCase(Tail(s))

\* ------------------------------------------------- percent encoding (URI)

HexVal(c) ==
  IF c \in 48..57 THEN c - 48
  ELSE IF c \in 65..70 THEN c - 55
  ELSE IF c \in 97..102 THEN c - 87
  ELSE -1

HexDigit(d) == IF d < 10 THEN 48 + d ELSE 55 + d

\* "%XY" with two hex digits starts at position k (1-based)
IsPct(s, k) ==
  /\ k + 2 <= Len(s)
  /\ s[k] = 37
  /\ HexVal(s[k + 1]) >= 0
  /\ HexVal(s[k + 2]) >= 0

PctByte(s, k) == 16 * HexVal(s[k + 1]) + HexVal(s[k + 2])

\* number of octets announced by a leading octet, 0 when it cannot lead
Utf8Len(b) ==
  IF b < 128 THEN 1
  ELSE IF b \in 194..223 THEN 2
  ELSE IF b \in 224..239 THEN 3
  ELSE IF b \in 240..244 THEN 4
  ELSE 0

\* the n - 1 octets after the leading one are "%XY" continuation octets
ContOk(s, k, n) ==
  \A j \in 1..(n - 1) :
    /\ IsPct(s, k + 3 * j)
    /\ PctByte(s, k + 3 * j) \in 128..191

RECURSIVE ContBits(_, _, _)
ContBits(s, k, n) ==
  IF n = 1 THEN 0
  ELSE 64 * ContBits(s, k, n - 1) + (PctByte(s, k + 3 * (n - 1)) - 128)

LeadBits(b, n) ==
  IF n = 1 THEN b ELSE IF n = 2 THEN b - 192 ELSE IF n = 3 THEN b - 224 ELSE b - 240

RECURSIVE Pow64(_)
Pow64(n) == IF n = 0 THEN 1 ELSE 64 * Pow64(n - 1)

CodePoint(s, k, n) == LeadBits(PctByte(s, k), n) * Pow64(n - 1) + ContBits(s, k, n)

\* not overlong, not a surrogate, at most U+10FFFF
ValidCodePoint(cp, n) ==
  IF n = 1 THEN TRUE
  ELSE IF n = 2 THEN cp >= 128
  ELSE IF n = 3 THEN cp >= 2048 /\ cp \notin 55296..57343
  ELSE cp \in 65536..1114111

\* the UTF-16 code units of a code point
CodeUnits(cp) ==
  IF cp < 65536 THEN <<cp>>
  ELSE <<55296 + ((cp - 65536) \div 1024), 56320 + ((cp - 65536) % 1024)>>

Then(head, rest) == IF rest = UriError THEN UriError ELSE head \o rest

RECURSIVE DecodeFrom(_, _)
DecodeFrom(s, k) ==
  IF k > Len(s) THEN <<>>
  ELSE IF s[k] # 37 THEN Then(<<s[k]>>, DecodeFrom(s, k + 1))
  ELSE IF ~IsPct(s, k) THEN UriError
  ELSE LET n == Utf8Len(PctByte(s, k)) IN
    IF n = 0 \/ ~ContOk(s, k, n) THEN UriError
    ELSE IF ~ValidCodePoint(CodePoint(s, k, n), n) THEN UriError
    ELSE Then(CodeUnits(CodePoint(s, k, n)), DecodeFrom(s, k + 3 * n))

\* decodeURIComponent(s); UriError when it throws
decodeURIComponent(s) == DecodeFrom(s, 1)

\* A-Z a-z 0-9 - _ . ! ~ * ' ( )
Unreserved(c) ==
  \/ c \in 65..90 \/ c \in 97..122 \/ c \in 48..57
  \/ c \in {45, 95, 46, 33, 126, 42, 39, 40, 41}

Pct(b) == <<37, HexDigit(b \div 16), HexDigit(b % 16)>>

Utf8Pct(cp) ==
  IF cp < 128 THEN Pct(cp)
  ELSE IF cp < 2048 THEN Pct(192 + (cp \div 64)) \o Pct(128 + (cp % 64))
  ELSE IF cp < 65536 THEN
    Pct(224 + (cp \div 4096)) \o Pct(128 + ((cp \div 64) % 64)) \o Pct(128 + (cp % 64))
  ELSE Pct(240 + (cp \div 262144)) \o Pct(128 + ((cp \div 4096) % 64))
       \o Pct(128 + ((cp \div 64) % 64)) \o Pct(128 + (cp % 64))

RECURSIVE EncodeFrom(_, _)
EncodeFrom(s, k) ==
  IF k > Len(s) THEN <<>>
  ELSE IF Unreserved(s[k]) THEN Then(<<s[k]>>, EncodeFrom(s, k + 1))
  ELSE IF s[k] \in 56320..57343 THEN UriError
  ELSE IF s[k] \in 55296..56319 THEN
    IF k + 1 <= Len(s) /\ s[k + 1] \in 56320..57343
    THEN Then(Utf8Pct(65536 + (s[k] - 55296) * 1024 + (s[k + 1] - 56320)),
              EncodeFrom(s, k + 2))
    ELSE UriError
  ELSE Then(Utf8Pct(s[k]), EncodeFrom(s, k + 1))

\* encodeURIComponent(s); UriError when it throws (a lone surrogate)
encodeURIComponent(s) == EncodeFrom(s, 1)

\* --------------------------------------------------- gallery.js: helpers

StorageObject == <<47, 115, 116, 111, 114, 97, 103, 101, 47, 118, 49, 47, 111, 98, 106, 101, 99, 116, 47>>
StoragePublic == StorageObject \o <<112, 117, 98, 108, 105, 99, 47>>
Uploads == <<117, 112, 108, 111, 97, 100, 115, 47>>
Photos == <<112, 104, 111, 116, 111, 115>>
DataColon == <<100, 97, 116, 97, 58>>
Base64Comma == <<59, 98, 97, 115, 101, 54, 52, 44>>
Untitled == <<85, 110, 116, 105, 116, 108, 101, 100>>

\* [a-z0-9._-]
NameChar(c) == c \in 97..122 \/ c \in 48..57 \/ c \in {46, 95, 45}

\* s.replace(/[^a-z0-9._-]+/g, '-')
RECURSIVE DashOthers(_, _)
DashOthers(s, inRun) ==
  IF s = <<>> THEN <<>>
  ELSE IF NameChar(s[1]) THEN <<s[1]>> \o DashOthers(Tail(s), FALSE)
  ELSE IF inRun THEN DashOthers(Tail(s), TRUE)
  ELSE <<45>> \o DashOthers(Tail(s), TRUE)

\* s.replace(/-+/g, '-')
RECURSIVE SqueezeDashes(_, _)
SqueezeDashes(s, inRun) ==
  IF s = <<>> THEN <<>>
  ELSE IF s[1] # 45 THEN <<s[1]>> \o SqueezeDashes(Tail(s), FALSE)
  ELSE IF inRun THEN SqueezeDashes(Tail(s), TRUE)
  ELSE <<45>> \o SqueezeDashes(Tail(s), TRUE)

\* s.replace(/^-|-$/g, ''): one hyphen off the start, one off the end
TrimDash(s) ==
  LET a == IF s # <<>> /\ s[1] = 45 THEN Tail(s) ELSE s
  IN IF a # <<>> /\ a[Len(a)] = 45 THEN SubSeq(a, 1, Len(a) - 1) ELSE a

cleanNameNoSqueeze(s) == TrimDash(DashOthers(ToLowerCase(s), FALSE))

cleanName(s) ==
  TrimDash(SqueezeDashes(DashOthers(ToLowerCase(s), FALSE), FALSE))

\* a line terminator, which "." does not match
LineEnd(c) == c \in {10, 13, 8232, 8233}

\* /^data:([^;]+);base64,(.+)$/i matches s; the first ";" ends group 1
DataUrlSemi(s) == IndexOf(SliceFrom(s, Len(DataColon)), <<59>>)
DataUrlMatches(s) ==
  /\ Len(s) >= Len(DataColon)
  /\ AsciiLower(SubSeq(s, 1, Len(DataColon))) = DataColon
  /\ LET rest == SliceFrom(s, Len(DataColon))
         i == DataUrlSemi(s)
     IN /\ i >= 1
        /\ i + Len(Base64Comma) < Len(rest)
        /\ AsciiLower(SubSeq(rest, i + 1, i + Len(Base64Comma))) = Base64Comma
        /\ \A k \in (i + Len(Base64Comma) + 1)..Len(rest) : ~LineEnd(rest[k])

\* parseDataUrl(dataUrl) throws
parseDataUrlThrows(dataUrl) == ~DataUrlMatches(ToStr(OrElse(dataUrl, <<>>)))
extractObjectPathNoMarkerCheck(publicUrl, bucket) ==
  IF ~Truthy(publicUrl) \/ ~IsString(publicUrl) THEN null
  ELSE LET marker == StoragePublic \o encodeURIComponent(bucket) \o <<47>>
           from == IndexOf(publicUrl, marker) + Len(marker)
           tail == SliceFrom(publicUrl, IF from > Len(publicUrl) THEN Len(publicUrl) ELSE from)
       IN IF decodeURIComponent(tail) = UriError THEN null ELSE decodeURIComponent(tail)

\* extractObjectPath(publicUrl, bucket); a throw inside it is caught and gives null
extractObjectPath(publicUrl, bucket) ==
  IF ~Truthy(publicUrl) THEN null
  ELSE IF ~IsString(publicUrl) THEN null
  ELSE IF encodeURIComponent(bucket) = UriError THEN null
  ELSE LET marker == StoragePublic \o encodeURIComponent(bucket) \o <<47>>
           idx == IndexOf(publicUrl, marker)
       IN IF idx = -1 THEN null
          ELSE IF decodeURIComponent(SliceFrom(publicUrl, idx + Len(marker))) = UriError
          THEN null
          ELSE decodeURIComponent(SliceFrom(publicUrl, idx + Len(marker)))

\* ------------------------------------------------------------------ state

VARIABLES
  pc,        \* "idle", a position inside the running handler, "done" or "threw"
  handler,   \* the function that is running
  event,     \* its request: httpMethod, body, headers
  env,       \* process.env at the invocation
  calls,     \* the calls to external services issued by this invocation, in order
  resp,      \* the response returned (status 0 while there is none)
  loc,       \* local variables that live across an await
  rows,      \* the gallery table of the backing service
  store,     \* the objects of the object store: [bucket, key]
  nextId,    \* the id the table gives to the next inserted row
  served,    \* invocations so far
  parked,    \* a second invocation in flight, waiting while the first one runs
  given,     \* the arguments a helper function is applied to on its own
  result     \* the values the helper returned, in order

vars == <<pc, handler, event, env, calls, resp, loc, rows, store, nextId, served,
          parked, given, result>>

MaxInvocations == 2
MaxClock == 8
MaxLen == 4
MaxConcurrent == 3

\* values of Date.now()
Times == 7..MaxClock

\* ------------------------------------------------------------ environment

NoEnv ==
  [SUPAHUB_URL |-> null, SUPABASE_URL |-> null,
   SUPAHUB_SERVICE_KEY |-> null, SUPABASE_SERVICE_ROLE_KEY |-> null,
   SUPAHUB_BUCKET |-> null, SUPABASE_BUCKET |-> null,
   NETLIFY_BUILD_HOOK_URL |-> null, ADMIN_SECRET |-> null, ADMIN_PASSWORD |-> null]

Host == <<104>>
Key == <<107>>
OtherBucket == <<112, 32, 98>>

FullEnv == [NoEnv EXCEPT !.SUPAHUB_URL = Host, !.SUPAHUB_SERVICE_KEY = Key]

GalleryEnvs ==
  { FullEnv,
    [NoEnv EXCEPT !.SUPABASE_URL = Host \o <<47>>, !.SUPABASE_SERVICE_ROLE_KEY = Key,
                  !.SUPABASE_BUCKET = OtherBucket],
    [NoEnv EXCEPT !.SUPAHUB_SERVICE_KEY = Key],
    [NoEnv EXCEPT !.SUPAHUB_URL = Host, !.SUPABASE_SERVICE_ROLE_KEY = <<>>] }

\* getCfg (gallery.js:148-169)
CfgURL(e) == OrElse(e.SUPAHUB_URL, OrElse(e.SUPABASE_URL, <<>>))
CfgKEY(e) == OrElse(e.SUPAHUB_SERVICE_KEY, OrElse(e.SUPABASE_SERVICE_ROLE_KEY, <<>>))
CfgBUCKET(e) == OrElse(e.SUPAHUB_BUCKET, OrElse(e.SUPABASE_BUCKET, Photos))
getCfgThrowsUrlOnly(e) == ~Truthy(CfgURL(e))
getCfgThrows(e) == ~Truthy(CfgURL(e)) \/ ~Truthy(CfgKEY(e))
\* URL.replace(/\/$/, '')
CfgBASE(e) ==
  IF CfgURL(e)[Len(CfgURL(e))] = 47
  THEN SubSeq(CfgURL(e), 1, Len(CfgURL(e)) - 1) ELSE CfgURL(e)
objectPublic(e, bucket, objectPath) ==
  CfgBASE(e) \o StoragePublic \o encodeURIComponent(bucket) \o <<47>> \o objectPath

\* ---------------------------------------------------------------- requests

NoFields ==
  [image |-> null, dataUrl |-> null, filename |-> null, location |-> null,
   id |-> null, image_url |-> null, path |-> null,
   title |-> null, entry_date |-> null, date |-> null, content |-> null,
   password |-> null]

\* event.body: absent, text that is no JSON, or the text of a JSON object
NoBody == [kind |-> "none", f |-> NoFields]
BadBody == [kind |-> "bad", f |-> NoFields]
Json(fields) == [kind |-> "json", f |-> fields]

\* JSON.parse(event.body || '{}') throws
ParseThrows(b) == b.kind = "bad"

GoodImage == DataColon \o <<97>> \o Base64Comma \o <<65>>
BadImage == DataColon \o <<97>>
NameA == <<65, 32, 98>>
NameB == <<99>>
Paris == <<80>>
PlainUrl == <<112, 47, 120>>

GalleryPostBodies ==
  { NoBody, BadBody,
    Json([NoFields EXCEPT !.image = GoodImage]),
    Json([NoFields EXCEPT !.filename = NameA]),
    Json([NoFields EXCEPT !.image = BadImage, !.filename = NameA]),
    Json([NoFields EXCEPT !.image = GoodImage, !.filename = NameA, !.location = Paris]),
    Json([NoFields EXCEPT !.dataUrl = GoodImage, !.filename = NameB]) }

GalleryPutBodies ==
  { NoBody, BadBody,
    Json([NoFields EXCEPT !.location = Paris]),
    Json([NoFields EXCEPT !.id = Num(2)]),
    Json([NoFields EXCEPT !.id = Num(2), !.location = Num(5)]),
    Json([NoFields EXCEPT !.id = Num(2), !.path = Uploads \o <<122>>]),
    Json([NoFields EXCEPT !.id = Num(2), !.path = Uploads \o <<122>>, !.location = Paris]),
    Json([NoFields EXCEPT !.id = Num(2), !.location = Paris]),
    Json([NoFields EXCEPT !.id = <<49>>, !.image_url = PlainUrl]),
    Json([NoFields EXCEPT !.id = Num(9), !.location = <<>>]) }

GalleryDeleteBodies ==
  { NoBody, BadBody,
    Json([NoFields EXCEPT !.id = Num(0)]) } \cup
  { Json([NoFields EXCEPT !.id = Num(i)]) : i \in 1..5 } \cup
  { Json([NoFields EXCEPT !.id = <<50>>]) }

\* event.headers: absent, or an object with the two spellings of the admin key
NoHeaders == [present |-> FALSE, x_admin_key |-> null, X_Admin_Key |-> null]
Headers(lower, upper) == [present |-> TRUE, x_admin_key |-> lower, X_Admin_Key |-> upper]

GalleryEvents ==
  [httpMethod : {"GET", "OPTIONS", "PATCH"}, body : {NoBody}, headers : {Headers(null, null)}]
  \cup [httpMethod : {"POST"}, body : GalleryPostBodies, headers : {Headers(null, null)}]
  \cup [httpMethod : {"PUT"}, body : GalleryPutBodies, headers : {Headers(null, null)}]
  \cup [httpMethod : {"DELETE"}, body : GalleryDeleteBodies, headers : {Headers(null, null)}]

\* ------------------------------------------------- the backing service

\* a gallery row; columns it lacks are null
NoRow ==
  [id |-> 0, filename |-> null, location |-> null, image_url |-> null,
   src |-> null, path |-> null, object_path |-> null]

ObjKey(bucket, key) == [bucket |-> bucket, key |-> key]

\* the rows a filter id=eq.<q> selects: the service decodes q
Selected(q) == {r \in rows : Decimal(r.id) = decodeURIComponent(q)}

\* the object a storage URL .../<bucket>/<tail> names: the service decodes the tail
Named(bucket, tail) == ObjKey(bucket, decodeURIComponent(tail))

\* outcomes of a fetch: a success status, another status, a rejected promise
Outcomes == {"ok", "fail", "throw"}

\* a call: what it does, to what, whether it carries a JSON body, how it ends
Call(op, arg, out) ==
  [op |-> op, arg |-> arg, json |-> op \in {"insert", "patch", "j_insert", "j_patch"},
   out |-> out]
HookCall(json, out) == [op |-> "hook", arg |-> <<>>, json |-> json, out |-> out]

\* ---------------------------------------------------------------- responses

NoResp == [status |-> 0, error |-> "", ok |-> FALSE, data |-> {}]
Error(status, msg) == [status |-> status, error |-> msg, ok |-> FALSE, data |-> {}]
Ok200 == [status |-> 200, error |-> "", ok |-> TRUE, data |-> {}]
Data(items) == [status |-> 200, error |-> "", ok |-> FALSE, data |-> items]

NoLoc == [objectPath |-> null, hasRow |-> FALSE, image_url |-> null]

Respond(r) == pc' = "done" /\ resp' = r

\* the seed content of the table: rows left by the earlier revisions of the
\* handlers (one of them with a storage path and no URL), and one row of an
\* earlier upload whose object is in the store
SeedKey == Uploads \o Decimal(7) \o <<95>> \o cleanName(NameA)
SeedRows ==
  { [NoRow EXCEPT !.id = 1, !.filename = NameB, !.src = PlainUrl],
    [NoRow EXCEPT !.id = 2, !.filename = cleanName(NameA),
                  !.image_url = objectPublic(FullEnv, Photos, SeedKey)],
    [NoRow EXCEPT !.id = 3, !.filename = NameB,
                  !.image_url = objectPublic(FullEnv, Photos, <<37>>)],
    [NoRow EXCEPT !.id = 4, !.filename = NameB,
                  !.image_url = objectPublic(FullEnv, Photos, <<>>)],
    [NoRow EXCEPT !.id = 20, !.filename = NameB, !.path = Uploads \o NameB] }

NoEvent == [httpMethod |-> "GET", body |-> NoBody, headers |-> NoHeaders]

\* an invocation that has not begun
Idle ==
  [pc |-> "idle", handler |-> "none", event |-> NoEvent, env |-> NoEnv,
   calls |-> <<>>, resp |-> NoResp, loc |-> NoLoc]

NoGiven == [fn |-> "none", s |-> <<>>, bucket |-> <<>>]

\* no invocation runs; the table and the store hold the seed content
AtRest ==
  /\ pc = "idle"
  /\ handler = "none"
  /\ event = NoEvent
  /\ env = NoEnv
  /\ calls = <<>>
  /\ resp = NoResp
  /\ loc = NoLoc
  /\ rows = SeedRows
  /\ store = {ObjKey(Photos, SeedKey)}
  /\ nextId = 5
  /\ served = 0
  /\ parked = Idle

Init ==
  /\ AtRest
  /\ given = NoGiven
  /\ result = <<>>

\* -------------------------------------------- gallery.js: the fetch handler

ResOkAlways(out) == TRUE

\* res.ok
ResOk(out) == out = "ok"

Rest == <<handler, event, env, served, parked, given, result>>

\* the catch at the handler boundary (gallery.js:343-346)
InternalError == Error(500, "Internal error")

\* body.image || body.dataUrl
ImageOf(f) == OrElse(f.image, f.dataUrl)

\* !image || !filename
PostInvalid(f) == ~Truthy(ImageOf(f)) \/ ~Truthy(f.filename)

\* !id
MissingId(f) == ~Truthy(f.id)

PutFieldsAnyType(f) ==
  {k \in {"location", "image_url"} : f[k] # null}

\* the keys of fields in PUT: the string-valued ones of location, image_url
PutFields(f) ==
  {k \in {"location", "image_url"} : IsString(f[k])}

\* the synchronous run of POST up to the upload (gallery.js:223-231)
PostThrows(f) == parseDataUrlThrows(ImageOf(f)) \/ ~IsString(f.filename)
PostObjectPathClockOnly(f, t) == Uploads \o Decimal(t)
PostObjectPathRaw(f, t) == Uploads \o Decimal(t) \o <<95>> \o f.filename
PostObjectPath(f, t) == Uploads \o Decimal(t) \o <<95>> \o cleanName(f.filename)

\* { ...r, image_url: url, src: url }
Item(r, url) == [r EXCEPT !.image_url = url, !.src = url]
\* r.image_url || r.src || null
RowUrl(r) == OrElse(r.image_url, OrElse(r.src, null))

\* from the entry of the handler to its first await or its return
GalleryStart ==
  /\ pc = "start" /\ handler = "gallery"
  /\ LET m == event.httpMethod
         f == event.body.f
     IN IF m = "OPTIONS" THEN Respond([NoResp EXCEPT !.status = 204]) /\ UNCHANGED loc
        ELSE IF getCfgThrows(env) THEN Respond(InternalError) /\ UNCHANGED loc
        ELSE IF m = "GET" THEN pc' = "g_list" /\ UNCHANGED <<resp, loc>>
        ELSE IF m \notin {"POST", "PUT", "DELETE"}
          THEN Respond(Error(405, "Method not allowed")) /\ UNCHANGED loc
        ELSE IF ParseThrows(event.body) THEN Respond(InternalError) /\ UNCHANGED loc
        ELSE IF m = "POST" THEN
          IF PostInvalid(f)
            THEN Respond(Error(400, "image and filename required")) /\ UNCHANGED loc
          ELSE IF PostThrows(f) THEN Respond(InternalError) /\ UNCHANGED loc
          ELSE \E t \in Times :
                 /\ pc' = "g_upload"
                 /\ loc' = [NoLoc EXCEPT !.objectPath = PostObjectPath(f, t)]
                 /\ UNCHANGED resp
        ELSE IF m = "PUT" THEN
          IF MissingId(f) THEN Respond(Error(400, "Missing id")) /\ UNCHANGED loc
          ELSE IF PutFields(f) = {}
            THEN Respond(Error(400, "No updatable fields provided")) /\ UNCHANGED loc
          ELSE pc' = "g_patch" /\ UNCHANGED <<resp, loc>>
        ELSE
          IF MissingId(f) THEN Respond(Error(400, "Missing id")) /\ UNCHANGED loc
          ELSE pc' = "g_read" /\ UNCHANGED <<resp, loc>>
  /\ UNCHANGED <<calls, rows, store, nextId>>
  /\ UNCHANGED Rest

\* GET: the list call and the reshaping of its rows (gallery.js:204-219)
GalleryList ==
  /\ pc = "g_list"
  /\ \E out \in Outcomes :
       /\ calls' = Append(calls, Call("list", <<>>, out))
       /\ IF out = "throw" THEN Respond(InternalError)
          ELSE IF ~ResOk(out) THEN Respond(Error(502, "Failed to list gallery"))
          ELSE Respond(Data({Item(r, RowUrl(r)) : r \in rows}))
  /\ UNCHANGED <<loc, rows, store, nextId>>
  /\ UNCHANGED Rest

AfterUploadUnchecked(out) == "g_insert"

\* the next position of POST after the upload answered
AfterUpload(out) == IF ResOk(out) THEN "g_insert" ELSE "done"

\* POST: the upload to the object store (gallery.js:233-242)
GalleryUpload ==
  /\ pc = "g_upload"
  /\ \E out \in Outcomes :
       /\ calls' = Append(calls, Call("upload", loc.objectPath, out))
       /\ store' = IF out = "ok"
                   THEN store \cup {Named(CfgBUCKET(env), loc.objectPath)} ELSE store
       /\ IF out = "throw" THEN Respond(InternalError)
          ELSE /\ pc' = AfterUpload(out)
               /\ resp' = IF ResOk(out) THEN resp ELSE Error(502, "upload failed")
  /\ UNCHANGED <<loc, rows, nextId>>
  /\ UNCHANGED Rest

\* the row POST inserts (gallery.js:244-252)
PostPayload(f, id, publicUrl) ==
  [NoRow EXCEPT !.id = id, !.filename = cleanName(f.filename),
                !.location = OrElse(f.location, <<>>), !.image_url = publicUrl]

InsertCleanupDeletes(objectPath, out) == <<Call("deleteObject", objectPath, "ok")>>

\* the calls POST issues after a failed insert (gallery.js:258-264): none
InsertCleanup(objectPath, out) == <<>>

\* POST: the insert of the row and the response (gallery.js:244-268)
GalleryInsert ==
  /\ pc = "g_insert"
  /\ \E out \in Outcomes :
       LET publicUrl == objectPublic(env, CfgBUCKET(env), loc.objectPath)
           row == PostPayload(event.body.f, nextId, publicUrl)
       IN /\ calls' = Append(calls, Call("insert", publicUrl, out))
                      \o (IF out = "fail" THEN InsertCleanup(loc.objectPath, out) ELSE <<>>)
          /\ rows' = IF out = "ok" THEN rows \cup {row} ELSE rows
          /\ nextId' = IF out = "ok" THEN nextId + 1 ELSE nextId
          /\ IF out = "throw" THEN Respond(InternalError)
             ELSE IF ~ResOk(out) THEN Respond(Error(502, "db insert failed"))
             ELSE Respond(Data({Item(row, publicUrl)}))
  /\ UNCHANGED <<loc, store>>
  /\ UNCHANGED Rest

\* the filter of PUT and DELETE: encodeURIComponent(String(id))
IdFilter(f) == encodeURIComponent(ToStr(f.id))

\* the row after the PATCH of PUT (gallery.js:277-279)
Patched(r, f) ==
  [r EXCEPT !.location = IF "location" \in PutFields(f) THEN f.location ELSE @,
            !.image_url = IF "image_url" \in PutFields(f) THEN f.image_url ELSE @]

\* PUT: the update call and the response (gallery.js:283-294)
GalleryPatch ==
  /\ pc = "g_patch"
  /\ \E out \in Outcomes :
       LET f == event.body.f
           hit == Selected(IdFilter(f))
           updated == {Patched(r, f) : r \in hit}
       IN /\ calls' = Append(calls, Call("patch", IdFilter(f), out))
          /\ rows' = IF out = "ok" THEN (rows \ hit) \cup updated ELSE rows
          /\ IF out = "throw" THEN Respond(InternalError)
             ELSE IF ~ResOk(out) THEN Respond(Error(502, "db update failed"))
             ELSE IF updated = {} THEN Respond(InternalError)
             ELSE Respond(Data({Item(r, RowUrl(r)) : r \in updated}))
  /\ UNCHANGED <<loc, store, nextId>>
  /\ UNCHANGED Rest

\* DELETE: the read of the row (gallery.js:304-313)
GalleryReadRow ==
  /\ pc = "g_read"
  /\ \E out \in Outcomes :
       LET hit == Selected(IdFilter(event.body.f))
       IN /\ calls' = Append(calls, Call("readRow", IdFilter(event.body.f), out))
          /\ IF out = "throw" THEN Respond(InternalError) /\ UNCHANGED loc
             ELSE IF ~ResOk(out) THEN Respond(Error(502, "db read failed")) /\ UNCHANGED loc
             ELSE /\ pc' = "g_delRow"
                  /\ loc' = IF hit = {} THEN NoLoc
                            ELSE [NoLoc EXCEPT !.hasRow = TRUE,
                                               !.image_url = (CHOOSE r \in hit : TRUE).image_url]
                  /\ UNCHANGED resp
  /\ UNCHANGED <<rows, store, nextId>>
  /\ UNCHANGED Rest

\* the object DELETE goes on to delete, null when it deletes none (gallery.js:327-329)
DeleteTarget(l, bucket) ==
  IF l.hasRow /\ Truthy(l.image_url)
  THEN extractObjectPath(l.image_url, bucket) ELSE null

\* the next position of DELETE after the row delete answered with success
AfterRowDelete(l, bucket) ==
  IF Truthy(DeleteTarget(l, bucket)) THEN "g_delObj" ELSE "done"

\* DELETE: the delete of the row (gallery.js:316-329, 337)
GalleryDeleteRow ==
  /\ pc = "g_delRow"
  /\ \E out \in Outcomes :
       LET hit == Selected(IdFilter(event.body.f))
       IN /\ calls' = Append(calls, Call("deleteRow", IdFilter(event.body.f), out))
          /\ rows' = IF out = "ok" THEN rows \ hit ELSE rows
          /\ IF out = "throw" THEN Respond(InternalError) /\ UNCHANGED loc
             ELSE IF ~ResOk(out) THEN Respond(Error(502, "db delete failed")) /\ UNCHANGED loc
             ELSE /\ pc' = AfterRowDelete(loc, CfgBUCKET(env))
                  /\ resp' = IF AfterRowDelete(loc, CfgBUCKET(env)) = "done" THEN Ok200 ELSE resp
                  /\ loc' = [loc EXCEPT !.objectPath = DeleteTarget(loc, CfgBUCKET(env))]
  /\ UNCHANGED <<store, nextId>>
  /\ UNCHANGED Rest

AfterObjectDeleteChecked(out) ==
  IF ResOk(out) THEN Ok200 ELSE Error(502, "object delete failed")

\* the response of DELETE once the object delete settled (gallery.js:330-337)
AfterObjectDelete(out) == Ok200

\* DELETE: the best-effort delete of the object (gallery.js:330-337); the
\* service cannot answer with success for a path it cannot decode
GalleryDeleteObject ==
  /\ pc = "g_delObj"
  /\ \E out \in Outcomes :
       /\ out = "ok" => decodeURIComponent(loc.objectPath) # UriError
       /\ calls' = Append(calls, Call("deleteObject", loc.objectPath, out))
       /\ store' = IF out = "ok"
                   THEN store \ {Named(CfgBUCKET(env), loc.objectPath)} ELSE store
       /\ Respond(AfterObjectDelete(out))
  /\ UNCHANGED <<loc, rows, nextId>>
  /\ UNCHANGED Rest

\* ------------------------------------------------ journal.js and variants
\* "journal" is src/functions/journal.js, "journal_date" the revision with the
\* date column (src/unnamed/part_000), "journal_strict" the revision that
\* validates POST and returns rows as they are (gallery.js:349-484)

JournalHandlers == {"journal", "journal_date", "journal_strict"}

\* cfg() of the strict revision tests the URL after the slash is stripped
StripSlash(u) == IF u # <<>> /\ u[Len(u)] = 47 THEN SubSeq(u, 1, Len(u) - 1) ELSE u
JournalCfgThrows(h, e) ==
  IF h = "journal_strict"
  THEN ~Truthy(StripSlash(CfgURL(e))) \/ ~Truthy(CfgKEY(e))
  ELSE getCfgThrows(e)

IsoDay == <<49, 57, 55, 48, 45, 48, 49, 45, 48, 49>>
IsoMidnight == <<84, 48, 48, 58, 48, 48, 58, 48, 48, 46>>
Pad3(t) == IF t < 10 THEN <<48, 48>> \o Decimal(t)
           ELSE IF t < 100 THEN <<48>> \o Decimal(t) ELSE Decimal(t)
\* new Date(t).toISOString() for 0 <= t < 1000
ToISOString(t) == IsoDay \o IsoMidnight \o Pad3(t) \o <<90>>
\* s.slice(0, 10)
Slice10(s) == SubSeq(s, 1, IF Len(s) < 10 THEN Len(s) ELSE 10)

WhiteSpace(c) ==
  \/ c \in {9, 10, 11, 12, 13, 32, 160, 5760, 8232, 8233, 8239, 8287, 12288, 65279}
  \/ c \in 8192..8202
RECURSIVE TrimStart(_)
TrimStart(s) == IF s # <<>> /\ WhiteSpace(s[1]) THEN TrimStart(Tail(s)) ELSE s
RECURSIVE TrimEnd(_)
TrimEnd(s) ==
  IF s # <<>> /\ WhiteSpace(s[Len(s)]) THEN TrimEnd(SubSeq(s, 1, Len(s) - 1)) ELSE s
\* s.trim()
Trim(s) == TrimEnd(TrimStart(s))

\* a journal row or entry; columns it lacks are null
NoEntry ==
  [id |-> 0, title |-> null, entry_date |-> null, date |-> null, content |-> null,
   body |-> null, created_at |-> null, updated_at |-> null]

Stamp == ToISOString(1)
Words == <<119>>
Day == <<100>>

\* rows the journal table may hold
JournalPool ==
  { [NoEntry EXCEPT !.id = 7, !.title = Words, !.entry_date = Day, !.date = Day,
                    !.content = Words, !.created_at = Stamp],
    [NoEntry EXCEPT !.id = 8, !.body = Words, !.created_at = Stamp],
    [NoEntry EXCEPT !.id = 9] }

StrictPostInvalidTitleOnly(f) == ~Truthy(f.title)

\* POST of the strict revision: !title || !content
StrictPostInvalid(f) == ~Truthy(f.title) \/ ~Truthy(f.content)

\* POST of journal.js and of the date revision validates nothing
PostRejected(h, f) == h = "journal_strict" /\ StrictPostInvalid(f)

\* (v || '').toString().trim() || d
Defaulted(v, d) == OrElse(Trim(ToStr(OrElse(v, <<>>))), d)

\* the row POST inserts, at time t
JournalPayload(h, f, t) ==
  IF h = "journal" THEN
    [NoEntry EXCEPT !.title = Defaulted(f.title, Untitled),
                    !.entry_date = Defaulted(OrElse(f.entry_date, f.date),
                                             Slice10(ToISOString(t))),
                    !.content = ToStr(OrElse(f.content, <<>>))]
  ELSE IF h = "journal_date" THEN
    [NoEntry EXCEPT !.title = Defaulted(f.title, Untitled),
                    !.date = Defaulted(f.date, ToISOString(t)),
                    !.content = ToStr(OrElse(f.content, <<>>))]
  ELSE
    [NoEntry EXCEPT !.title = ToStr(f.title), !.content = ToStr(f.content),
                    !.date = IF Truthy(f.date) THEN f.date ELSE null]

\* the columns PUT updates
JournalPutFields(h, f) ==
  {k \in {"title", "content"} : IsString(f[k])}
  \cup (IF h = "journal"
        THEN (IF IsString(f.entry_date) \/ IsString(f.date) THEN {"entry_date"} ELSE {})
        ELSE (IF IsString(f.date) THEN {"date"} ELSE {}))

JournalPatched(h, r, f) ==
  LET ks == JournalPutFields(h, f)
  IN [r EXCEPT !.title = IF "title" \in ks THEN f.title ELSE @,
               !.content = IF "content" \in ks THEN f.content ELSE @,
               !.entry_date = IF "entry_date" \in ks
                              THEN (IF IsString(f.entry_date) THEN f.entry_date ELSE f.date)
                              ELSE @,
               !.date = IF "date" \in ks THEN f.date ELSE @]

\* an entry of GET: the two dates are computed one after the other, at t1 and t2
ListEntry(h, r, t1, t2) ==
  IF h = "journal" THEN
    [NoEntry EXCEPT !.id = r.id, !.title = OrElse(r.title, Untitled),
       !.entry_date = OrElse(r.entry_date, OrElse(r.created_at, ToISOString(t1))),
       !.date = OrElse(r.entry_date, OrElse(r.created_at, ToISOString(t2))),
       !.content = OrElse(r.content, <<>>),
       !.created_at = r.created_at, !.updated_at = r.updated_at]
  ELSE IF h = "journal_date" THEN
    [NoEntry EXCEPT !.id = r.id, !.title = OrElse(r.title, Untitled),
       !.date = OrElse(r.date, OrElse(r.created_at, ToISOString(t1))),
       !.content = OrElse(r.content, OrElse(r.body, <<>>)),
       !.created_at = r.created_at, !.updated_at = r.updated_at]
  ELSE r

\* the entry POST and PUT return for the row the service answered with
RowEntry(h, r) ==
  IF h = "journal" THEN
    [NoEntry EXCEPT !.id = r.id, !.title = r.title,
       !.entry_date = OrElse(r.entry_date, r.created_at),
       !.date = OrElse(r.entry_date, r.created_at),
       !.content = OrElse(r.content, <<>>),
       !.created_at = r.created_at, !.updated_at = r.updated_at]
  ELSE IF h = "journal_date" THEN
    [NoEntry EXCEPT !.id = r.id, !.title = r.title,
       !.date = OrElse(r.date, r.created_at),
       !.content = OrElse(r.content, <<>>),
       !.created_at = r.created_at, !.updated_at = r.updated_at]
  ELSE r

\* from the entry of the handler to its first await or its return
JournalStart ==
  /\ pc = "start" /\ handler \in JournalHandlers
  /\ LET m == event.httpMethod
         f == event.body.f
     IN IF m = "OPTIONS" THEN Respond([NoResp EXCEPT !.status = 204])
        ELSE IF JournalCfgThrows(handler, env) THEN Respond(InternalError)
        ELSE IF m = "GET" THEN pc' = "j_list" /\ UNCHANGED resp
        ELSE IF m \notin {"POST", "PUT", "DELETE"}
          THEN Respond(Error(405, "Method not allowed"))
        ELSE IF ParseThrows(event.body) THEN Respond(InternalError)
        ELSE IF m = "POST" THEN
          IF PostRejected(handler, f)
            THEN Respond(Error(400, "title and content are required"))
          ELSE pc' = "j_insert" /\ UNCHANGED resp
        ELSE IF m = "PUT" THEN
          IF MissingId(f)
            THEN Respond(Error(400, IF handler = "journal_strict"
                                    THEN "id is required" ELSE "Missing id"))
          ELSE IF JournalPutFields(handler, f) = {}
            THEN Respond(Error(400, "No updatable fields provided"))
          ELSE pc' = "j_patch" /\ UNCHANGED resp
        ELSE
          IF MissingId(f)
            THEN Respond(Error(400, IF handler = "journal_strict"
                                    THEN "id is required" ELSE "Missing id"))
          ELSE pc' = "j_delete" /\ UNCHANGED resp
  /\ UNCHANGED <<calls, loc, rows, store, nextId>>
  /\ UNCHANGED Rest

\* GET: the list call and the reshaping of its rows; only a row without
\* created_at can reach new Date(), each such row at its own two times
JournalList ==
  /\ pc = "j_list"
  /\ \E out \in Outcomes :
       /\ calls' = Append(calls, Call("j_list", <<>>, out))
       /\ IF out = "throw" THEN Respond(InternalError)
          ELSE IF ~ResOk(out) THEN Respond(Error(502, "Failed to list journal"))
          ELSE \E list \in SUBSET JournalPool :
                 \E now \in [{r \in list : ~Truthy(r.created_at)} -> Times \X Times] :
                   Respond(Data({IF Truthy(r.created_at)
                                 THEN ListEntry(handler, r, 0, 0)
                                 ELSE ListEntry(handler, r, now[r][1], now[r][2]) :
                                 r \in list}))
  /\ UNCHANGED <<loc, rows, store, nextId>>
  /\ UNCHANGED Rest

\* POST: the insert call and the response
JournalInsert ==
  /\ pc = "j_insert"
  /\ \E out \in Outcomes, t \in Times, created \in {null, Stamp} :
       LET row == [JournalPayload(handler, event.body.f, t) EXCEPT
                     !.id = 10, !.created_at = created]
       IN /\ calls' = Append(calls, Call("j_insert", row.title, out))
          /\ IF out = "throw" THEN Respond(InternalError)
             ELSE IF ~ResOk(out) THEN Respond(Error(502, "db insert failed"))
             ELSE Respond(Data({RowEntry(handler, row)}))
  /\ UNCHANGED <<loc, rows, store, nextId>>
  /\ UNCHANGED Rest

\* PUT: the update call and the response; no row answers an id the table lacks
JournalPatch ==
  /\ pc = "j_patch"
  /\ \E out \in Outcomes :
       LET f == event.body.f
           hit == {r \in JournalPool : Decimal(r.id) = decodeURIComponent(IdFilter(f))}
           updated == {JournalPatched(handler, r, f) : r \in hit}
       IN /\ calls' = Append(calls, Call("j_patch", IdFilter(f), out))
          /\ IF out = "throw" THEN Respond(InternalError)
             ELSE IF ~ResOk(out) THEN Respond(Error(502, "db update failed"))
             ELSE IF updated = {}
               THEN (IF handler = "journal_strict" THEN Respond(Data({}))
                     ELSE Respond(InternalError))
             ELSE Respond(Data({RowEntry(handler, r) : r \in updated}))
  /\ UNCHANGED <<loc, rows, store, nextId>>
  /\ UNCHANGED Rest

\* DELETE: the delete call and the response
JournalDelete ==
  /\ pc = "j_delete"
  /\ \E out \in Outcomes :
       /\ calls' = Append(calls, Call("j_delete", IdFilter(event.body.f), out))
       /\ IF out = "throw" THEN Respond(InternalError)
          ELSE IF ~ResOk(out) THEN Respond(Error(502, "db delete failed"))
          ELSE Respond(Ok200)
  /\ UNCHANGED <<loc, rows, store, nextId>>
  /\ UNCHANGED Rest

JournalPostBodies ==
  { NoBody, BadBody,
    Json([NoFields EXCEPT !.title = Words]),
    Json([NoFields EXCEPT !.content = Words]),
    Json([NoFields EXCEPT !.title = Words, !.content = Words]),
    Json([NoFields EXCEPT !.title = <<32>>, !.content = Words, !.date = Day]) }

JournalPutBodies ==
  { NoBody, BadBody,
    Json([NoFields EXCEPT !.title = Words]),
    Json([NoFields EXCEPT !.id = Num(7)]),
    Json([NoFields EXCEPT !.id = Num(7), !.title = Num(5)]),
    Json([NoFields EXCEPT !.id = Num(7), !.title = Words]),
    Json([NoFields EXCEPT !.id = Num(7), !.entry_date = Day]),
    Json([NoFields EXCEPT !.id = <<56>>, !.date = Day]),
    Json([NoFields EXCEPT !.id = Num(3), !.content = <<>>]) }

JournalDeleteBodies ==
  { NoBody, BadBody,
    Json([NoFields EXCEPT !.id = Num(0)]),
    Json([NoFields EXCEPT !.id = Num(7)]) }

JournalEvents ==
  [httpMethod : {"GET", "OPTIONS", "PATCH"}, body : {NoBody}, headers : {Headers(null, null)}]
  \cup [httpMethod : {"POST"}, body : JournalPostBodies, headers : {Headers(null, null)}]
  \cup [httpMethod : {"PUT"}, body : JournalPutBodies, headers : {Headers(null, null)}]
  \cup [httpMethod : {"DELETE"}, body : JournalDeleteBodies, headers : {Headers(null, null)}]

JournalEnvs ==
  { FullEnv,
    [NoEnv EXCEPT !.SUPABASE_URL = <<47>>, !.SUPABASE_SERVICE_ROLE_KEY = Key],
    [NoEnv EXCEPT !.SUPAHUB_SERVICE_KEY = Key],
    [NoEnv EXCEPT !.SUPAHUB_URL = Host] }

\* ------------------------------------------------------- update-site.js

Hook == <<117>>
Secret == <<115>>
Wrong == <<120>>

SiteEnvs ==
  { [NoEnv EXCEPT !.NETLIFY_BUILD_HOOK_URL = hook, !.ADMIN_SECRET = secret] :
      hook \in {null, Hook}, secret \in {null, <<>>, Secret} }

SiteEvents ==
  [httpMethod : {"OPTIONS", "GET"}, body : {NoBody}, headers : {Headers(null, null)}]
  \cup [httpMethod : {"POST"}, body : {NoBody},
        headers : {NoHeaders} \cup
                  {Headers(lower, upper) : lower \in {null, Secret, Wrong},
                                           upper \in {null, Secret}}]

\* event.headers['x-admin-key'] || event.headers['X-Admin-Key']
Provided(hd) == OrElse(hd.x_admin_key, hd.X_Admin_Key)

\* provided !== secret
Unauthorized(provided, secret) == provided # secret

\* reading a property of event.headers throws when there are no headers
HeadersThrow(hd) == ~hd.present

\* the handler up to the first call of the hook (update-site.js:21-33)
SiteStart ==
  /\ pc = "start" /\ handler = "update-site"
  /\ LET hook == env.NETLIFY_BUILD_HOOK_URL
         secret == env.ADMIN_SECRET
     IN IF event.httpMethod = "OPTIONS" THEN Respond([NoResp EXCEPT !.status = 204])
        ELSE IF event.httpMethod # "POST" THEN Respond(Error(405, "Method not allowed"))
        ELSE IF ~Truthy(hook)
          THEN Respond(Error(500, "Missing NETLIFY_BUILD_HOOK_URL env var"))
        ELSE IF Truthy(secret) /\ HeadersThrow(event.headers)
          THEN pc' = "threw" /\ UNCHANGED resp
        ELSE IF Truthy(secret) /\ Unauthorized(Provided(event.headers), secret)
          THEN Respond(Error(401, "Unauthorized"))
        ELSE pc' = "s_hook" /\ UNCHANGED resp
  /\ UNCHANGED <<calls, loc, rows, store, nextId>>
  /\ UNCHANGED Rest

FallbackNever(out) == FALSE

\* the hook is called again, with no body, after this outcome of the first call
Fallback(out) == ~ResOk(out)

\* the response for the last answer of the hook (update-site.js:48-52)
HookResponse(out) ==
  IF ResOk(out) THEN Ok200 ELSE Error(502, "Build hook responded with error")

HookFailed == Error(500, "Failed to call build hook")

\* the first call of the hook, with a JSON body (update-site.js:37-46)
SiteHook ==
  /\ pc = "s_hook"
  /\ \E out \in Outcomes :
       /\ calls' = Append(calls, HookCall(TRUE, out))
       /\ IF out = "throw" THEN Respond(HookFailed)
          ELSE IF Fallback(out) THEN pc' = "s_retry" /\ UNCHANGED resp
          ELSE Respond(HookResponse(out))
  /\ UNCHANGED <<loc, rows, store, nextId>>
  /\ UNCHANGED Rest

\* the fallback call, with no body, and the response (update-site.js:45-55)
SiteRetry ==
  /\ pc = "s_retry"
  /\ \E out \in Outcomes :
       /\ calls' = Append(calls, HookCall(FALSE, out))
       /\ IF out = "throw" THEN Respond(HookFailed)
          ELSE Respond(HookResponse(out))
  /\ UNCHANGED <<loc, rows, store, nextId>>
  /\ UNCHANGED Rest

\* ------------------------------------- the upload handler (part_001:1-88)
\* The module creates its client from SUPABASE_URL and
\* SUPABASE_SERVICE_ROLE_KEY when it is loaded; an invocation exists only
\* where both are set.  The client answers a call with data or with an error.

ClientEnv == [NoEnv EXCEPT !.SUPABASE_URL = Host, !.SUPABASE_SERVICE_ROLE_KEY = Key]

GalleryDash == <<103, 97, 108, 108, 101, 114, 121, 45>>
NameDot == <<97, 46, 98>>

\* s.split(c).pop(): what follows the last c, all of s when c does not occur
RECURSIVE LastSegment(_, _)
LastSegment(s, c) ==
  IF IndexOf(s, <<c>>) = -1 THEN s
  ELSE LastSegment(SliceFrom(s, IndexOf(s, <<c>>) + 1), c)

\* the synchronous run up to the upload throws (part_001:28-36): JSON.parse
\* of no body or of bad text, image.split on a value that is no string,
\* Buffer.from of the undefined second piece, filename.split on no string
UploadThrows(b) ==
  \/ b.kind # "json"
  \/ ~IsString(b.f.image)
  \/ IndexOf(b.f.image, <<44>>) = -1
  \/ ~IsString(b.f.filename)

\* `gallery-${timestamp}.${fileExtension}`
UniqueFilename(f, t) == GalleryDash \o Decimal(t) \o <<46>> \o LastSegment(f.filename, 46)

\* getPublicUrl(uniqueFilename).publicUrl of the bucket photos
UploadPublicUrl(e, name) ==
  StripSlash(e.SUPABASE_URL) \o StoragePublic \o Photos \o <<47>> \o name

UploadError == Error(500, "upload error")
Success(msg) == [status |-> 200, error |-> msg, ok |-> TRUE, data |-> {}]

\* OPTIONS and the methods other than POST (part_001:15-25, 105-115)
Preflight(m) ==
  IF m = "OPTIONS" THEN [NoResp EXCEPT !.status = 200]
  ELSE Error(405, "Method not allowed")

UploadStart ==
  /\ pc = "start" /\ handler = "upload"
  /\ IF event.httpMethod # "POST" THEN Respond(Preflight(event.httpMethod)) /\ UNCHANGED loc
     ELSE IF UploadThrows(event.body) THEN Respond(UploadError) /\ UNCHANGED loc
     ELSE \E t \in Times :
            /\ pc' = "u_upload"
            /\ loc' = [NoLoc EXCEPT !.objectPath = UniqueFilename(event.body.f, t)]
            /\ UNCHANGED resp
  /\ UNCHANGED <<calls, rows, store, nextId>>
  /\ UNCHANGED Rest

\* the upload with upsert: false (part_001:39-46): it cannot succeed over an
\* object that exists
UploadStore ==
  /\ pc = "u_upload"
  /\ \E out \in Outcomes :
       /\ out = "ok" => ObjKey(Photos, loc.objectPath) \notin store
       /\ calls' = Append(calls, Call("u_upload", loc.objectPath, out))
       /\ store' = IF out = "ok" THEN store \cup {ObjKey(Photos, loc.objectPath)} ELSE store
       /\ IF ResOk(out) THEN pc' = "u_insert" /\ UNCHANGED resp
          ELSE Respond(UploadError)
  /\ UNCHANGED <<loc, rows, nextId>>
  /\ UNCHANGED Rest

\* the insert of the gallery row and the response (part_001:49-75)
UploadInsert ==
  /\ pc = "u_insert"
  /\ \E out \in Outcomes :
       LET url == UploadPublicUrl(env, loc.objectPath)
           row == [NoRow EXCEPT !.id = nextId, !.filename = loc.objectPath,
                                !.location = event.body.f.location, !.image_url = url]
       IN /\ calls' = Append(calls, Call("u_insert", url, out))
          /\ rows' = IF out = "ok" THEN rows \cup {row} ELSE rows
          /\ nextId' = IF out = "ok" THEN nextId + 1 ELSE nextId
          /\ IF ResOk(out) THEN Respond([Success("") EXCEPT !.data = {row}])
             ELSE Respond(UploadError)
  /\ UNCHANGED <<loc, store>>
  /\ UNCHANGED Rest

UploadEvents ==
  [httpMethod : {"OPTIONS", "GET"}, body : {NoBody}, headers : {Headers(null, null)}]
  \cup [httpMethod : {"POST"},
        body : { NoBody, BadBody,
                 Json([NoFields EXCEPT !.image = GoodImage]),
                 Json([NoFields EXCEPT !.image = BadImage, !.filename = NameDot]),
                 Json([NoFields EXCEPT !.image = GoodImage, !.filename = NameDot]) },
        headers : {Headers(null, null)}]

\* ------------------------------- the auth-check handler (part_001:90-149)

Password == <<112>>

AuthEnvs == { ClientEnv, [ClientEnv EXCEPT !.ADMIN_PASSWORD = Password] }

AuthEvents ==
  [httpMethod : {"OPTIONS", "GET"}, body : {NoBody}, headers : {Headers(null, null)}]
  \cup [httpMethod : {"POST"},
        body : { NoBody, BadBody, Json(NoFields),
                 Json([NoFields EXCEPT !.password = Password]),
                 Json([NoFields EXCEPT !.password = Wrong]),
                 Json([NoFields EXCEPT !.password = Num(5)]) },
        headers : {Headers(null, null)}]

\* JSON.parse(event.body) throws: no body, or text that is no JSON
AuthParseThrows(b) == b.kind # "json"

\* password === process.env.ADMIN_PASSWORD; a value that is absent on both
\* sides is undefined on both sides
PasswordMatches(password, e) == password = e.ADMIN_PASSWORD

\* the whole handler: it awaits nothing (part_001:97-149)
AuthCheck ==
  /\ pc = "start" /\ handler = "auth-check"
  /\ IF event.httpMethod # "POST" THEN Respond(Preflight(event.httpMethod))
     ELSE IF AuthParseThrows(event.body) THEN Respond(Error(500, "Server error"))
     ELSE IF PasswordMatches(event.body.f.password, env)
       THEN Respond(Success("Authentication successful"))
     ELSE Respond(Error(401, "Invalid password"))
  /\ UNCHANGED <<calls, loc, rows, store, nextId>>
  /\ UNCHANGED Rest

\* ----------------------------------------------------------- invocations

Requests ==
  [handler : {"gallery"}, event : GalleryEvents, env : GalleryEnvs]
  \cup [handler : JournalHandlers, event : JournalEvents, env : JournalEnvs]
  \cup [handler : {"update-site"}, event : SiteEvents, env : SiteEnvs]
  \cup [handler : {"upload"}, event : UploadEvents, env : {ClientEnv}]
  \cup [handler : {"auth-check"}, event : AuthEvents, env : AuthEnvs]

\* the platform invokes a handler with a request
Invoke ==
  /\ pc = "idle"
  /\ served < MaxInvocations
  /\ \E r \in Requests :
       /\ handler' = r.handler
       /\ event' = r.event
       /\ env' = r.env
  /\ pc' = "start"
  /\ served' = served + 1
  /\ calls' = <<>>
  /\ resp' = NoResp
  /\ loc' = NoLoc
  /\ UNCHANGED <<rows, store, nextId, parked, given, result>>

\* the invocation is over; the platform may invoke again
Return ==
  /\ pc \in {"done", "threw"}
  /\ pc' = "idle"
  /\ handler' = "none"
  /\ event' = NoEvent
  /\ env' = NoEnv
  /\ calls' = <<>>
  /\ resp' = NoResp
  /\ loc' = NoLoc
  /\ UNCHANGED <<rows, store, nextId, served, parked, given, result>>

Next ==
  \/ Invoke
  \/ GalleryStart
  \/ GalleryList
  \/ GalleryUpload
  \/ GalleryInsert
  \/ GalleryPatch
  \/ GalleryReadRow
  \/ GalleryDeleteRow
  \/ GalleryDeleteObject
  \/ JournalStart
  \/ JournalList
  \/ JournalInsert
  \/ JournalPatch
  \/ JournalDelete
  \/ SiteStart
  \/ SiteHook
  \/ SiteRetry
  \/ UploadStart
  \/ UploadStore
  \/ UploadInsert
  \/ AuthCheck
  \/ Return

Spec == Init /\ [][Next]_vars

\* ------------------------------------- two gallery invocations in flight
\* Invocations share nothing but the backing service, and each call to it
\* takes effect at once; two of them interleave call by call.

ConcurrentRequests ==
  [handler : {"gallery"}, env : {FullEnv},
   event : [httpMethod : {"POST"}, headers : {Headers(null, null)},
            body : { Json([NoFields EXCEPT !.image = GoodImage, !.filename = NameA]),
                     Json([NoFields EXCEPT !.image = GoodImage, !.filename = NameB]) }]
           \cup [httpMethod : {"DELETE"}, headers : {Headers(null, null)},
                 body : { Json([NoFields EXCEPT !.id = Num(i)]) : i \in {2, 5} }]]

\* the platform invokes the gallery handler while another invocation may wait
ConcurrentInvoke ==
  /\ pc = "idle"
  /\ served < MaxConcurrent
  /\ \E r \in ConcurrentRequests :
       /\ handler' = r.handler
       /\ event' = r.event
       /\ env' = r.env
  /\ pc' = "start"
  /\ served' = served + 1
  /\ calls' = <<>>
  /\ resp' = NoResp
  /\ loc' = NoLoc
  /\ UNCHANGED <<rows, store, nextId, parked, given, result>>

\* the running invocation waits for an answer (or has not begun, or is
\* over), and the other one runs on
Switch ==
  /\ pc # "start"
  /\ pc # "idle" \/ parked.pc # "idle"
  /\ parked' = [pc |-> pc, handler |-> handler, event |-> event, env |-> env,
                calls |-> calls, resp |-> resp, loc |-> loc]
  /\ pc' = parked.pc
  /\ handler' = parked.handler
  /\ event' = parked.event
  /\ env' = parked.env
  /\ calls' = parked.calls
  /\ resp' = parked.resp
  /\ loc' = parked.loc
  /\ UNCHANGED <<rows, store, nextId, served, given, result>>

ConcurrentNext ==
  \/ ConcurrentInvoke
  \/ GalleryStart
  \/ GalleryUpload
  \/ GalleryInsert
  \/ GalleryReadRow
  \/ GalleryDeleteRow
  \/ GalleryDeleteObject
  \/ Switch
  \/ Return

ConcurrentSpec == Init /\ [][ConcurrentNext]_vars

\* ------------------------------------------ the helpers, applied on their own

\* every string of at most n code units of the alphabet
StringsOver(alphabet, n) == UNION {[1..k -> alphabet] : k \in 0..n}

\* A b - ! . and U+0130, whose lower case is two code units
NameAlphabet == {65, 98, 45, 33, 46, 304}
\* % 4 1 a /
KeyAlphabet == {37, 52, 49, 97, 47}

Givens ==
  [fn : {"cleanName"}, s : StringsOver(NameAlphabet, MaxLen), bucket : {<<>>}]
  \cup [fn : {"objectPublic"}, s : StringsOver(KeyAlphabet, MaxLen),
        bucket : {Photos, OtherBucket}]

HelperInit ==
  /\ AtRest
  /\ given \in Givens
  /\ result = <<>>

Last(seq) == seq[Len(seq)]

\* cleanName(s), then cleanName of what it returned
Sanitize ==
  /\ given.fn = "cleanName"
  /\ Len(result) < 2
  /\ result' = Append(result, cleanName(IF result = <<>> THEN given.s ELSE Last(result)))
  /\ UNCHANGED <<pc, handler, event, env, calls, resp, loc, rows, store, nextId,
                 served, parked, given>>

\* objectPublic(bucket, key) under the full configuration
Publish ==
  /\ given.fn = "objectPublic"
  /\ result = <<>>
  /\ result' = <<objectPublic(FullEnv, given.bucket, given.s)>>
  /\ UNCHANGED <<pc, handler, event, env, calls, resp, loc, rows, store, nextId,
                 served, parked, given>>

\* extractObjectPath(url, bucket) of the URL objectPublic returned
Extract ==
  /\ given.fn = "objectPublic"
  /\ Len(result) = 1
  /\ result' = Append(result, extractObjectPath(Last(result), given.bucket))
  /\ UNCHANGED <<pc, handler, event, env, calls, resp, loc, rows, store, nextId,
                 served, parked, given>>

HelperNext ==
  \/ Sanitize
  \/ Publish
  \/ Extract

HelperSpec == HelperInit /\ [][HelperNext]_vars

\* ------------------------------------------------------------- properties

Done == pc = "done"
Ended == pc \in {"done", "threw"}
Method(m) == event.httpMethod = m
Body == event.body.f
Parsed == event.body.kind # "bad"
Positions(op) == {i \in DOMAIN calls : calls[i].op = op}
Issued(op) == Positions(op) # {}
Answered(op, out) == \E i \in Positions(op) : calls[i].out = out
AnsweredBefore(op, out, i) == \E j \in Positions(op) : j < i /\ calls[j].out = out
\* the configuration lets the handler pass its getCfg
Configured ==
  /\ Truthy(CfgKEY(env))
  /\ IF handler = "journal_strict"
     THEN Truthy(StripSlash(CfgURL(env))) ELSE Truthy(CfgURL(env))
InGallery(m) == handler = "gallery" /\ Method(m) /\ Configured /\ Parsed

\* C1: in gallery POST an insert call is issued only after an upload call
\* answered with success, and when the upload answers with another status no
\* insert call is issued and the response is an error.
C1_InsertOnlyAfterUpload ==
  handler = "gallery" =>
    /\ \A i \in Positions("insert") : AnsweredBefore("upload", "ok", i)
    /\ Answered("upload", "fail") =>
         /\ ~Issued("insert")
         /\ Done /\ resp.status >= 400

C1_UploadFailed ==
  /\ InGallery("POST") /\ Done
  /\ Len(calls) = 1 /\ Answered("upload", "fail")
  /\ resp = Error(502, "upload failed")

\* C2: in gallery DELETE the object delete call is issued only after the row
\* delete answered with success, and from then on the only response is
\* 200 {ok: true}, whatever the object delete does.
C2_ObjectDeleteAfterRowDelete ==
  handler = "gallery" =>
    /\ \A i \in Positions("deleteObject") : AnsweredBefore("deleteRow", "ok", i)
    /\ Answered("deleteRow", "ok") =>
         /\ pc \in {"g_delObj", "done"}
         /\ Done => resp = Ok200

C2_ObjectDeleteFailed ==
  /\ InGallery("DELETE") /\ Done
  /\ Answered("deleteRow", "ok")
  /\ Answered("deleteObject", "fail") \/ Answered("deleteObject", "throw")
  /\ resp = Ok200

\* the row read by DELETE gives no object to delete: no row, no image_url, an
\* image_url without the marker of the bucket, or a tail that does not decode
Marker == StoragePublic \o encodeURIComponent(CfgBUCKET(env)) \o <<47>>
NoObjectReference ==
  \/ ~loc.hasRow
  \/ ~Truthy(loc.image_url)
  \/ IndexOf(loc.image_url, Marker) = -1
  \/ decodeURIComponent(SliceFrom(loc.image_url, IndexOf(loc.image_url, Marker) + Len(Marker)))
       = UriError
DeleteWithoutReference ==
  InGallery("DELETE") /\ Done /\ Answered("readRow", "ok") /\ NoObjectReference

\* C3, as claimed: when the row read gives no object to delete, the row delete
\* is still issued, the response is 200 {ok: true} and no object delete call
\* is issued.
C3_Claimed ==
  DeleteWithoutReference =>
    /\ Issued("deleteRow")
    /\ resp = Ok200
    /\ ~Issued("deleteObject")

\* C3, amended: when the row read gives no object to delete, the row delete
\* is still issued and no object delete call is issued; the response is
\* 200 {ok: true} when the row delete answers with success, 502 when it
\* answers with another status.
C3_RowDeletedWithoutObjectCall ==
  DeleteWithoutReference =>
    /\ Issued("deleteRow")
    /\ ~Issued("deleteObject")
    /\ Answered("deleteRow", "ok") => resp = Ok200
    /\ Answered("deleteRow", "fail") => resp = Error(502, "db delete failed")

C3_UndecodableReference ==
  /\ DeleteWithoutReference
  /\ loc.hasRow /\ IndexOf(loc.image_url, Marker) # -1
  /\ Answered("deleteRow", "ok")
  /\ resp = Ok200
  /\ Selected(IdFilter(Body)) = {}

\* the object the running POST uploaded
Uploaded == Named(CfgBUCKET(env), loc.objectPath)
References(r, key) ==
  Truthy(r.image_url) /\ extractObjectPath(r.image_url, key.bucket) = key.key
InsertFailed ==
  InGallery("POST") /\ Done /\ Answered("upload", "ok") /\ Answered("insert", "fail")

\* C4, as claimed: when the insert fails after a successful upload, the
\* response is 502, no storage delete call is issued, and the uploaded object
\* stays in the store with no row referencing it.
C4_Claimed ==
  InsertFailed =>
    /\ resp.status = 502
    /\ ~Issued("deleteObject")
    /\ Uploaded \in store
    /\ \A r \in rows : ~References(r, Uploaded)

\* C4, amended: the step in which the insert fails after a successful upload
\* responds 502, issues no storage delete call, leaves the uploaded object in
\* the store and adds no row; a row references the object only if it did
\* before the insert was tried.
C4_OrphanLeftInStore ==
  [][(pc = "g_insert" /\ calls'[Len(calls) + 1].out = "fail") =>
       /\ pc' = "done"
       /\ resp' = Error(502, "db insert failed")
       /\ Len(calls') = Len(calls) + 1
       /\ \A i \in DOMAIN calls' : calls'[i].op # "deleteObject"
       /\ Uploaded \in store'
       /\ rows' = rows]_vars

C4_InsertFailed ==
  /\ InsertFailed
  /\ Len(calls) = 2
  /\ resp = Error(502, "db insert failed")
  /\ Uploaded \in store
  /\ \A r \in rows : ~References(r, Uploaded)

\* the columns a PUT of the handler can update
Updatable ==
  IF handler = "gallery" THEN {"location", "image_url"}
  ELSE IF handler = "journal" THEN {"title", "entry_date", "date", "content"}
  ELSE {"title", "date", "content"}
FetchBased == {"gallery"} \cup JournalHandlers
Validated == handler \in FetchBased /\ Configured /\ Parsed /\ Done

\* C5: in the gallery and journal handlers a 400 response comes with no
\* upstream call; a gallery POST without image or filename, a PUT or DELETE
\* without id and a PUT with an id and no string-valued updatable field are
\* answered 400 (the last with "No updatable fields provided") with no call.
C5_InvalidRequestsCallNothing ==
  /\ (handler \in FetchBased /\ resp.status = 400) => calls = <<>>
  /\ (Validated /\ handler = "gallery" /\ Method("POST")
        /\ (~Truthy(OrElse(Body.image, Body.dataUrl)) \/ ~Truthy(Body.filename)))
       => resp.status = 400 /\ calls = <<>>
  /\ (Validated /\ (Method("PUT") \/ Method("DELETE")) /\ ~Truthy(Body.id))
       => resp.status = 400 /\ calls = <<>>
  /\ (Validated /\ Method("PUT") /\ Truthy(Body.id)
        /\ \A k \in Updatable : ~IsString(Body[k]))
       => resp = Error(400, "No updatable fields provided") /\ calls = <<>>

C5_NonStringField ==
  /\ Validated /\ handler = "gallery" /\ Method("PUT")
  /\ Truthy(Body.id) /\ Body.location # null
  /\ resp = Error(400, "No updatable fields provided")
  /\ calls = <<>>

NoTitleOrContent ==
  /\ Method("POST") /\ Configured /\ Parsed /\ Done
  /\ ~Truthy(Body.title) \/ ~Truthy(Body.content)

\* C6, as claimed: in src/functions/journal.js a POST without title or
\* without content is answered with a 400-class error and issues no insert.
C6_Claimed ==
  (handler = "journal" /\ NoTitleOrContent) =>
    /\ resp.status \in 400..499
    /\ ~Issued("j_insert")

\* C6, amended: only the revision of the journal handler at gallery.js:349-484
\* answers a POST without title or without content with 400 and no insert
\* call; src/functions/journal.js accepts it, issues the insert call with the
\* title "Untitled" in place of a missing title, and answers 200 when the
\* insert succeeds.
C6_OnlyStrictRevisionValidates ==
  /\ (handler = "journal_strict" /\ NoTitleOrContent) =>
       /\ resp = Error(400, "title and content are required")
       /\ calls = <<>>
  /\ (handler = "journal" /\ NoTitleOrContent) =>
       /\ Len(calls) = 1 /\ Issued("j_insert")
       /\ ~Truthy(Body.title) => calls[1].arg = Untitled
       /\ Answered("j_insert", "ok") => resp.status = 200

C6_MissingTitleInserted ==
  /\ handler = "journal" /\ NoTitleOrContent
  /\ ~Truthy(Body.title)
  /\ calls = <<Call("j_insert", Untitled, "ok")>>
  /\ resp.status = 200

\* C7: in gallery POST an image that does not match
\* data:<mime>;base64,<payload> is rejected with a 400-class status, and no
\* upload or insert call is issued.
C7_Claimed ==
  (/\ InGallery("POST") /\ Done
   /\ Truthy(OrElse(Body.image, Body.dataUrl)) /\ Truthy(Body.filename)
   /\ ~DataUrlMatches(ToStr(OrElse(Body.image, Body.dataUrl)))) =>
    /\ resp.status \in 400..499
    /\ ~Issued("upload") /\ ~Issued("insert")

\* a required configuration value of the running handler is absent
ConfigAbsent ==
  IF handler = "update-site" THEN ~Truthy(env.NETLIFY_BUILD_HOOK_URL)
  ELSE \/ ~Truthy(OrElse(env.SUPAHUB_URL, env.SUPABASE_URL))
       \/ ~Truthy(OrElse(env.SUPAHUB_SERVICE_KEY, env.SUPABASE_SERVICE_ROLE_KEY))

\* C8, as claimed: for every handler and request, when a required
\* configuration value is absent the response is a 500-class error and no
\* call to an external service is issued.
C8_Claimed ==
  (handler # "none" /\ Ended /\ ConfigAbsent) =>
    /\ Done /\ resp.status \in 500..599
    /\ calls = <<>>

\* C8, amended: when a required configuration value is absent no call to an
\* external service is issued, and the response is a 500-class error for
\* every request but OPTIONS (answered 204) and, in update-site, but the
\* methods other than POST (answered 405).
C8_MissingConfigCallsNothing ==
  (handler # "none" /\ ConfigAbsent) =>
    /\ calls = <<>>
    /\ pc # "threw"
    /\ Done =>
         IF Method("OPTIONS") THEN resp.status = 204
         ELSE IF handler = "update-site" /\ ~Method("POST") THEN resp.status = 405
         ELSE resp.status \in 500..599

C8_MissingKey ==
  /\ handler = "gallery" /\ Done /\ Method("DELETE")
  /\ Truthy(CfgURL(env)) /\ ConfigAbsent
  /\ resp = InternalError
  /\ calls = <<>>

\* the X-Admin-Key the request provides, null when it provides none
AdminKey ==
  IF event.headers.present
  THEN OrElse(event.headers.x_admin_key, event.headers.X_Admin_Key) ELSE null

\* C9: in update-site with ADMIN_SECRET configured, a POST whose X-Admin-Key
\* is missing or differs from the secret is answered 401 and the hook is
\* never called; the hook is called only when the key equals the secret.
C9_Claimed ==
  (/\ handler = "update-site" /\ Method("POST")
   /\ Truthy(env.NETLIFY_BUILD_HOOK_URL) /\ Truthy(env.ADMIN_SECRET)) =>
    /\ Issued("hook") => AdminKey = env.ADMIN_SECRET
    /\ (Ended /\ AdminKey # env.ADMIN_SECRET) =>
         /\ Done /\ resp.status = 401
         /\ ~Issued("hook")

\* C10: one invocation of update-site calls the hook at most twice, first
\* with a JSON body, then with no body exactly when the first call answered
\* with a non-success status; the response is 200 when the last call answered
\* with success and 502 when it answered with a non-success status.
C10_OneFallbackCall ==
  handler = "update-site" =>
    /\ Len(calls) <= 2
    /\ \A i \in DOMAIN calls : calls[i].op = "hook" /\ (calls[i].json <=> i = 1)
    /\ Len(calls) = 2 => calls[1].out = "fail"
    /\ (Done /\ calls # <<>> /\ calls[1].out = "fail") => Len(calls) = 2
    /\ (Done /\ calls # <<>> /\ calls[Len(calls)].out = "ok") => resp.status = 200
    /\ (Done /\ calls # <<>> /\ calls[Len(calls)].out = "fail") => resp.status = 502

C10_FallbackSucceeded ==
  /\ handler = "update-site" /\ Done
  /\ calls = <<HookCall(TRUE, "fail"), HookCall(FALSE, "ok")>>
  /\ resp.status = 200

\* C11: every invocation of every handler, whatever the request (a body that
\* does not parse, no request headers, a failing upstream call, an empty
\* upstream result), ends by returning a response with a status code; none
\* ends with an exception leaving the handler.
C11_Claimed ==
  (handler # "none" /\ Ended) => (Done /\ resp.status \in 200..599)

\* C12: in the gallery handler and the journal handlers, a call of list,
\* upload, insert, update, row read or row delete that answers with a
\* non-success status is the last call of the invocation and the response is
\* 502; the step in which the row read of gallery DELETE answers so leaves
\* the table as it was.
C12_UpstreamFailureEnds ==
  /\ [](handler \in FetchBased =>
          \A i \in DOMAIN calls :
            (calls[i].op # "deleteObject" /\ calls[i].out = "fail") =>
              /\ i = Len(calls)
              /\ Done /\ resp.status = 502)
  /\ [][(pc = "g_read" /\ calls'[Len(calls) + 1].out = "fail") =>
          /\ rows' = rows
          /\ pc' = "done"
          /\ Len(calls') = Len(calls) + 1]_vars

C12_RowReadFailed ==
  /\ InGallery("DELETE") /\ Done
  /\ calls = <<Call("readRow", IdFilter(Body), "fail")>>
  /\ resp = Error(502, "db read failed")
  /\ Selected(IdFilter(Body)) # {}

\* one of the four reference fields of the row is populated
Populated(r) ==
  Truthy(r.image_url) \/ Truthy(r.path) \/ Truthy(r.object_path) \/ Truthy(r.src)

\* C13: every item of a gallery GET carries one value under image_url and
\* src, and that value is null only for a row with none of image_url, path,
\* object_path and src populated.
C13_Claimed ==
  (InGallery("GET") /\ Done /\ resp.status = 200) =>
    \A item \in resp.data :
      /\ item.image_url = item.src
      /\ \A r \in rows : r.id = item.id => (item.image_url = null <=> ~Populated(r))

\* a PUT of the gallery with an id, a storage path and no image_url
PathSupplied ==
  /\ InGallery("PUT") /\ Done
  /\ Truthy(Body.id)
  /\ IsString(Body.path) /\ Truthy(Body.path)
  /\ Body.image_url = null

\* C14: a gallery PUT that supplies a storage path and no image_url issues
\* the update, and the update, once applied, leaves the row with the public
\* URL of that path as its image_url.
C14_Claimed ==
  PathSupplied =>
    /\ Issued("patch")
    /\ Answered("patch", "ok") =>
         \A r \in Selected(IdFilter(Body)) :
           r.image_url = objectPublic(env, CfgBUCKET(env), Body.path)

\* C15: after a successful gallery POST the key of the upload call, the key
\* in the image_url of the inserted row and the key in the image_url and src
\* of the response are one key, uploads/<timestamp>_<sanitized filename>,
\* under the public-object URL of the configured bucket.
C15_OneKeyEverywhere ==
  (InGallery("POST") /\ Done /\ resp.status = 200) =>
    LET key == calls[1].arg
        bucket == CfgBUCKET(env)
        url == CfgBASE(env) \o StoragePublic \o encodeURIComponent(bucket) \o <<47>> \o key
    IN /\ calls[1].op = "upload" /\ calls[1].out = "ok"
       /\ \E t \in Times : key = Uploads \o Decimal(t) \o <<95>> \o cleanName(Body.filename)
       /\ extractObjectPath(url, bucket) = key
       /\ resp.data # {}
       /\ \A item \in resp.data :
            /\ item.image_url = url /\ item.src = url
            /\ \E r \in rows : r.id = item.id /\ r.image_url = url

C15_CreatedInOtherBucket ==
  /\ InGallery("POST") /\ Done /\ resp.status = 200
  /\ CfgBUCKET(env) = OtherBucket
  /\ Body.filename = NameA
  /\ calls[1].arg = Uploads \o Decimal(MaxClock) \o <<95, 97, 45, 98>>
  /\ \E r \in rows : r.id >= 5 /\ extractObjectPath(r.image_url, OtherBucket) = calls[1].arg

\* C16: for every storage key and bucket, extractObjectPath applied to
\* objectPublic(bucket, key) and the bucket returns the key.
C16_Claimed ==
  (given.fn = "objectPublic" /\ Len(result) = 2) => result[2] = given.s

\* C17: cleanName returns only characters of [a-z0-9._-], with no two
\* hyphens in a row and no hyphen at either end, and cleanName of what it
\* returned returns the same.
C17_SanitizeIdempotent ==
  (given.fn = "cleanName" /\ result # <<>>) =>
    LET name == result[1]
    IN /\ \A i \in DOMAIN name : NameChar(name[i])
       /\ \A i \in 1..(Len(name) - 1) : ~(name[i] = 45 /\ name[i + 1] = 45)
       /\ name # <<>> => (name[1] # 45 /\ name[Len(name)] # 45)
       /\ Len(result) = 2 => result[2] = name

C17_SanitizedTwice ==
  /\ given.fn = "cleanName"
  /\ given.s = <<33, 65, 45, 33>>
  /\ result = << <<97>>, <<97>> >>

\* C18: every entry src/functions/journal.js returns (the items of GET, the
\* result of POST and of PUT) carries one value under date and entry_date,
\* also for a row with neither entry_date nor created_at.
C18_Claimed ==
  (handler = "journal" /\ Done /\ resp.status = 200) =>
    \A entry \in resp.data : entry.date = entry.entry_date

\* C19: auth-check answers a POST with 200 and success only when the body
\* carries a password equal to the configured ADMIN_PASSWORD; with no
\* ADMIN_PASSWORD configured it answers no POST with success.
C19_Claimed ==
  (handler = "auth-check" /\ Method("POST") /\ Done /\ resp.status = 200) =>
    /\ env.ADMIN_PASSWORD # null
    /\ Body.password # null
    /\ Body.password = env.ADMIN_PASSWORD

\* the rows created since the seed content, and the object a row references
Created == rows \ SeedRows
ObjectOf(r) == ObjKey(Photos, extractObjectPath(r.image_url, Photos))

\* C20, as claimed: under every interleaving of gallery creates and deletes
\* and all clock values, distinct created rows reference distinct objects,
\* and no step removes from the store the object of a row that exists
\* before and after it.
C20_Claimed ==
  /\ [](\A r1, r2 \in Created : r1.id # r2.id => ObjectOf(r1) # ObjectOf(r2))
  /\ [][\A r \in rows \cap rows' : ObjectOf(r) \in store => ObjectOf(r) \in store']_vars

\* C20, amended: distinct created rows reference one object only when their
\* creates read the same clock value and had the same sanitized filename
\* (the key is uploads/<clock>_<sanitized filename>); the object of a row
\* that stays in the table is removed from the store only by the object
\* delete of a DELETE whose own row referenced that same object.
C20_SharedOnlyOnEqualClockAndName ==
  /\ [](\A r1, r2 \in Created :
          (r1.id # r2.id /\ ObjectOf(r1) = ObjectOf(r2)) =>
            /\ r1.filename = r2.filename
            /\ \E t \in Times :
                 ObjectOf(r1).key = Uploads \o Decimal(t) \o <<95>> \o r1.filename)
  /\ [][\A r \in rows \cap rows' :
          (ObjectOf(r) \in store /\ ObjectOf(r) \notin store') =>
            /\ pc = "g_delObj"
            /\ loc.hasRow
            /\ ObjKey(Photos, extractObjectPath(loc.image_url, Photos)) = ObjectOf(r)]_vars

C20_ObjectOfLiveRowRemoved ==
  /\ handler = "gallery" /\ Method("DELETE") /\ Done
  /\ Answered("deleteObject", "ok")
  /\ \E r \in Created :
       /\ Decimal(r.id) # ToStr(Body.id)
       /\ r.image_url = loc.image_url
       /\ ObjectOf(r) \notin store

\* C21: a PUT of the gallery handler or of src/functions/journal.js with an
\* id and an updatable field, whose PATCH call answers with success, is
\* answered 200 and never 500, also when the id matches no row and the PATCH
\* answers with an empty list.
C21_Claimed ==
  (/\ handler \in {"gallery", "journal"} /\ Method("PUT") /\ Done
   /\ Answered("patch", "ok") \/ Answered("j_patch", "ok")) =>
    resp.status = 200

====
